---- MODULE Spec2Model ----
(***************************************************************************)
(* A model of package zerologgorm (logger.go): a GORM logger that writes   *)
(* through zerolog.  The options struct, the Logger value, the leveled     *)
(* methods, Trace (step by step, with the clock advancing in between),     *)
(* ParamsFilter and LogMode.  zerolog's Event is modelled by the calls the *)
(* package makes on it: the level it was started at, the caller-skip, the  *)
(* fields in the order they were appended, the message, and Send/Msg       *)
(* appending the event to the output of the logger bound to the context.   *)
(***************************************************************************)
EXTENDS Integers, Sequences, FiniteSets, TLC

----------------------------------------------------------------------------
(* Bounds of the model *)

\* clock ticks per millisecond (a time.Duration is a whole number of ticks)
TicksPerMs == 2
\* the clock runs from 0 to MaxNow
MaxNow == 2
\* ParamsFilter is called with at most MaxParams parameters
MaxParams == 2

\* goroutines calling into the one logger
Procs == {"g1", "g2"}
\* the goroutine of the sequential specification
Main == "g1"

----------------------------------------------------------------------------
(* Values *)

DebugLevel == "debug"
InfoLevel == "info"
WarnLevel == "warn"
ErrorLevel == "error"

\* An error is the chain errors.Unwrap walks, outermost first; nil is the
\* empty chain.  Two errors are identical when their chains are equal.
Nil == <<>>
ErrRecordNotFound == <<"ErrRecordNotFound">>
Errors == {Nil, ErrRecordNotFound, <<"wrap", "ErrRecordNotFound">>, <<"some error">>}

\* errors.Is(err, target): err or an error it wraps is identical to target
RECURSIVE Is(_, _)
IsIdentical(err, target) == err # Nil /\ err = target
Is(err, target) ==
    IF err = Nil THEN FALSE
    ELSE IF err = target THEN TRUE
    ELSE Is(Tail(err), target)

\* time.Duration.Milliseconds(): whole milliseconds, truncated
Milliseconds(d) == d \div TicksPerMs

\* contexts a call may carry: one with a logger bound, one without
Contexts == {"ctx", "background"}
\* zerolog.Ctx(ctx): the logger bound to ctx, else the default context logger
Ctx(ctx) == IF ctx = "ctx" THEN "ctxLogger" ELSE "DefaultContextLogger"

----------------------------------------------------------------------------
(* zerolog.Event, as the package drives it *)

NoEvent == [sink |-> "", level |-> "", skip |-> 0, fields |-> <<>>, msg |-> ""]
\* Logger.Error() / Warn() / Info() / WithLevel(level)
NewEvent(sink, level) == [NoEvent EXCEPT !.sink = sink, !.level = level]
CallerSkipFrame(e, n) == [e EXCEPT !.skip = @ + n]
Int64(e, key, v) == [e EXCEPT !.fields = Append(@, <<key, v>>)]
Str(e, key, v) == [e EXCEPT !.fields = Append(@, <<key, v>>)]
Err(e, err) == IF err = Nil THEN e ELSE [e EXCEPT !.fields = Append(@, <<"error", err>>)]
Msg(e, m) == [e EXCEPT !.msg = m]

\* fmt.Sprintf over a format given as its pieces: literal text and %s verbs
RECURSIVE Sprintf(_, _)
Sprintf(format, a) ==
    IF format = <<>>
    THEN IF a = <<>> THEN "" ELSE "%!(EXTRA string=" \o Head(a) \o ")"
    ELSE IF Head(format) = "%s"
         THEN IF a = <<>>
              THEN "%!s(MISSING)" \o Sprintf(Tail(format), a)
              ELSE Head(a) \o Sprintf(Tail(format), Tail(a))
         ELSE Head(format) \o Sprintf(Tail(format), a)

----------------------------------------------------------------------------
(* options and NewLogger *)

DefaultSlowMs == 500
DefaultOptions ==
    [logParams |-> FALSE, skipFrames |-> 0, defaultLogLevel |-> DebugLevel,
     fieldName |-> "sql", ignoreNotFoundErr |-> FALSE,
     slowThreshold |-> DefaultSlowMs * TicksPerMs, logAll |-> FALSE]

WithLogAll(o) == [o EXCEPT !.logAll = TRUE]
WithIgnoreNotFoundError(o) == [o EXCEPT !.ignoreNotFoundErr = TRUE]
WithLogParams(o) == [o EXCEPT !.logParams = TRUE]
WithSkipFrames(skip, o) == [o EXCEPT !.skipFrames = skip]
WithSqlFieldName(name, o) == [o EXCEPT !.fieldName = name]
WithDefaultLogLevel(level, o) == [o EXCEPT !.defaultLogLevel = level]
WithSlowThreshold(threshold, o) == [o EXCEPT !.slowThreshold = threshold]

\* an OptionFn applied to the options
OptionFn(fn, o) ==
    CASE fn[1] = "WithLogAll" -> WithLogAll(o)
      [] fn[1] = "WithIgnoreNotFoundError" -> WithIgnoreNotFoundError(o)
      [] fn[1] = "WithLogParams" -> WithLogParams(o)
      [] fn[1] = "WithSkipFrames" -> WithSkipFrames(fn[2], o)
      [] fn[1] = "WithSqlFieldName" -> WithSqlFieldName(fn[2], o)
      [] fn[1] = "WithDefaultLogLevel" -> WithDefaultLogLevel(fn[2], o)
      [] fn[1] = "WithSlowThreshold" -> WithSlowThreshold(fn[2], o)

RECURSIVE ApplyOpts(_, _)
ApplyOpts(o, opts) ==
    IF opts = <<>> THEN o ELSE ApplyOpts(OptionFn(Head(opts), o), Tail(opts))

NewLogger(opts) == [opt |-> ApplyOpts(DefaultOptions, opts)]

\* the option lists NewLogger is called with: each option absent or present
LogAllOpts == {<<>>, << <<"WithLogAll">> >>}
IgnoreOpts == {<<>>, << <<"WithIgnoreNotFoundError">> >>}
LogParamsOpts == {<<>>, << <<"WithLogParams">> >>}
SkipOpts == {<<>>, << <<"WithSkipFrames", 1>> >>}
FieldOpts == {<<>>, << <<"WithSqlFieldName", "test">> >>}
LevelOpts == {<<>>, << <<"WithDefaultLogLevel", WarnLevel>> >>,
              << <<"WithDefaultLogLevel", ErrorLevel>> >>}
SlowOpts == {<<>>, << <<"WithSlowThreshold", 0>> >>, << <<"WithSlowThreshold", 1>> >>}

----------------------------------------------------------------------------
(* State *)

VARIABLES
    logger,   \* the Logger the host holds (NewLogger's result, then LogMode's)
    built,    \* the options as NewLogger left them
    now,      \* the clock
    pc,       \* per goroutine: where its call stands
    call,     \* per goroutine: the method called and its arguments
    loc,      \* per goroutine: Trace's locals logLevel, shouldLog, event
    out,      \* per goroutine: the events sent through the context of its call
    hist      \* per goroutine: the clock readings, f's calls, events started

vars == <<logger, built, now, pc, call, loc, out, hist>>

NoCall == [op |-> "", ctx |-> "", begin |-> 0, err |-> Nil, level |-> "",
           format |-> <<>>, args |-> <<>>, sql |-> "", params |-> <<>>,
           ret |-> <<"", <<>>>>]
NoLoc == [logLevel |-> "", shouldLog |-> FALSE, event |-> NoEvent]
NoHist == [since1 |-> 0, since2 |-> 0, fCalls |-> 0, started |-> 0,
           fSql |-> "", fRows |-> 0]

InitWith(opts) ==
    /\ logger = NewLogger(opts)
    /\ built = logger.opt
    /\ now = 0
    /\ pc = [p \in Procs |-> "idle"]
    /\ call = [p \in Procs |-> NoCall]
    /\ loc = [p \in Procs |-> NoLoc]
    /\ out = [p \in Procs |-> <<>>]
    /\ hist = [p \in Procs |-> NoHist]

Init ==
    \E a \in LogAllOpts, i \in IgnoreOpts, lp \in LogParamsOpts, sk \in SkipOpts,
       fl \in FieldOpts, lv \in LevelOpts, sl \in SlowOpts :
        InitWith(a \o i \o lp \o sk \o fl \o lv \o sl)


----------------------------------------------------------------------------
(* Inputs *)

\* the arguments of ParamsFilter
ParamValues == {1, 2}
ParamLists == UNION {[1..n -> ParamValues] : n \in 0..MaxParams}

\* What the calls of a specification are made with:
\*   ctxs, the contexts; ages, how long before the call the query began (just
\*   now, or the default slow threshold ago); errs, Trace's err; sqls and rows,
\*   what the result provider f returns; formats and args, the arguments of
\*   Error, Warn and Info; params, those of ParamsFilter; levels, gorm's
\*   logger.LogLevel
Inputs ==
    [ctxs |-> Contexts, ages |-> {0, DefaultSlowMs * TicksPerMs}, errs |-> Errors,
     sqls |-> {"", "SELECT 1"}, rows |-> {-1, 0, 1},
     formats |-> {<<"plain">>, <<"info ", "%s">>}, args |-> {<<>>, <<"test">>},
     params |-> ParamLists, levels |-> {"Silent", "Error", "Warn", "Info"}]

\* the calls of the README's tests, for goroutines running side by side
ConcInputs ==
    [ctxs |-> {"ctx"}, ages |-> {0}, errs |-> {Nil, ErrRecordNotFound},
     sqls |-> {"SELECT 1"}, rows |-> {1},
     formats |-> {<<"info ", "%s">>}, args |-> {<<"test">>},
     params |-> {<<1>>}, levels |-> {"Info"}]

----------------------------------------------------------------------------
(* The methods' decisions *)

\* time.Since(begin)
Since(begin) == now - begin

\* logger.go:164, the slow-query test
IsSlowInclusive(l, elapsed) == l.opt.slowThreshold > 0 /\ elapsed >= l.opt.slowThreshold
IsSlow(l, elapsed) == l.opt.slowThreshold > 0 /\ elapsed > l.opt.slowThreshold

\* logger.go:160-167, logLevel after the slow-query test
LogLevelKeep(l, elapsed) == l.opt.defaultLogLevel
LogLevel(l, elapsed) == IF IsSlow(l, elapsed) THEN WarnLevel ELSE l.opt.defaultLogLevel

\* logger.go:162-167, shouldLog after the slow-query test
ShouldLogAlways(l, elapsed) == TRUE
ShouldLog(l, elapsed) == IF IsSlow(l, elapsed) THEN TRUE ELSE l.opt.logAll

\* logger.go:172, the trace of an ignored not-found error is skipped
IgnoredUnlessLogAll(l, err) ==
    l.opt.ignoreNotFoundErr /\ ~l.opt.logAll /\ Is(err, ErrRecordNotFound)
Ignored(l, err) == l.opt.ignoreNotFoundErr /\ Is(err, ErrRecordNotFound)

\* logger.go:176, the event of a failed query: a new one, at Error, with err
ErrorEventKeepLevel(sink, event, err) == Err(event, err)
ErrorEvent(sink, event, err) == Err(NewEvent(sink, ErrorLevel), err)

\* logger.go:146-152
applyOffByOne(l, event) ==
    IF l.opt.skipFrames > 1 THEN CallerSkipFrame(event, l.opt.skipFrames) ELSE event
apply(l, event) ==
    IF l.opt.skipFrames > 0 THEN CallerSkipFrame(event, l.opt.skipFrames) ELSE event

\* logger.go:207-213
ParamsFilterInverted(l, sql, params) ==
    IF l.opt.logParams THEN <<sql, <<>>>> ELSE <<sql, params>>
ParamsFilter(l, sql, params) ==
    IF ~l.opt.logParams THEN <<sql, <<>>>> ELSE <<sql, params>>

\* logger.go:126-128
LogModeSetsLevel(l, level) ==
    [l EXCEPT !.opt.logAll = (level = "Info"),
              !.opt.defaultLogLevel = IF level = "Error" THEN ErrorLevel ELSE @]
LogMode(l, level) == l

----------------------------------------------------------------------------
(* Actions *)

\* event.Send() / event.Msg(): the event goes out through the call's context
Send(p, e) == out' = [out EXCEPT ![p] = Append(@, e)]

\* the body shared by Error, Warn and Info: l.apply(<event>).Msg(Sprintf(...))
Leveled(p, op, level, ctx, format, a) ==
    /\ pc[p] = "idle"
    /\ Send(p, Msg(apply(logger, NewEvent(Ctx(ctx), level)), Sprintf(format, a)))
    /\ hist' = [hist EXCEPT ![p].started = @ + 1]
    /\ call' = [call EXCEPT ![p] =
                  [NoCall EXCEPT !.op = op, !.ctx = ctx, !.format = format, !.args = a]]
    /\ pc' = [pc EXCEPT ![p] = "done"]
    /\ UNCHANGED <<logger, built, now, loc>>

Error(p, in) ==
    \E ctx \in in.ctxs, format \in in.formats, a \in in.args :
        Leveled(p, "Error", ErrorLevel, ctx, format, a)

Warn(p, in) ==
    \E ctx \in in.ctxs, format \in in.formats, a \in in.args :
        Leveled(p, "Warn", WarnLevel, ctx, format, a)

Info(p, in) ==
    \E ctx \in in.ctxs, format \in in.formats, a \in in.args :
        Leveled(p, "Info", InfoLevel, ctx, format, a)

\* Trace is entered: logLevel and shouldLog get their first values
TraceCall(p, in) ==
    /\ pc[p] = "idle"
    /\ \E ctx \in in.ctxs, age \in in.ages, err \in in.errs :
          call' = [call EXCEPT ![p] =
                     [NoCall EXCEPT !.op = "Trace", !.ctx = ctx,
                                    !.begin = now - age, !.err = err]]
    /\ loc' = [loc EXCEPT ![p] = [NoLoc EXCEPT !.logLevel = logger.opt.defaultLogLevel,
                                               !.shouldLog = logger.opt.logAll]]
    /\ pc' = [pc EXCEPT ![p] = "t_slow"]
    /\ UNCHANGED <<logger, built, now, out, hist>>

\* the slow-query test, with the first reading of the clock
TraceSlow(p) ==
    /\ pc[p] = "t_slow"
    /\ LET elapsed == Since(call[p].begin) IN
         /\ loc' = [loc EXCEPT ![p].logLevel = LogLevel(logger, elapsed),
                               ![p].shouldLog = ShouldLog(logger, elapsed)]
         /\ hist' = [hist EXCEPT ![p].since1 = elapsed]
    /\ pc' = [pc EXCEPT ![p] = "t_event"]
    /\ UNCHANGED <<logger, built, now, call, out>>

\* the event is started; a failed query replaces it, or ends the call when
\* the error is ignored; a call that should not log returns
TraceEvent(p) ==
    /\ pc[p] = "t_event"
    /\ LET c == call[p]
           event == NewEvent(Ctx(c.ctx), loc[p].logLevel)
       IN
         IF c.err # Nil /\ Ignored(logger, c.err)
         THEN /\ loc' = [loc EXCEPT ![p].event = event]
              /\ hist' = [hist EXCEPT ![p].started = @ + 1]
              /\ pc' = [pc EXCEPT ![p] = "done"]
         ELSE IF c.err # Nil
         THEN /\ loc' = [loc EXCEPT ![p].event = ErrorEvent(Ctx(c.ctx), event, c.err),
                                    ![p].shouldLog = TRUE]
              /\ hist' = [hist EXCEPT ![p].started = @ + 2]
              /\ pc' = [pc EXCEPT ![p] = "t_stamp"]
         ELSE /\ loc' = [loc EXCEPT ![p].event = event]
              /\ hist' = [hist EXCEPT ![p].started = @ + 1]
              /\ pc' = [pc EXCEPT ![p] = IF loc[p].shouldLog THEN "t_stamp" ELSE "done"]
    /\ UNCHANGED <<logger, built, now, call, out>>

\* caller-skip, then elapsed_ms from a second reading of the clock
TraceStamp(p) ==
    /\ pc[p] = "t_stamp"
    /\ LET elapsed == Since(call[p].begin)
           event == IF logger.opt.skipFrames > 0
                    THEN CallerSkipFrame(loc[p].event, logger.opt.skipFrames)
                    ELSE loc[p].event
       IN
         /\ loc' = [loc EXCEPT ![p].event = Int64(event, "elapsed_ms", Milliseconds(elapsed))]
         /\ hist' = [hist EXCEPT ![p].since2 = elapsed]
    /\ pc' = [pc EXCEPT ![p] = "t_result"]
    /\ UNCHANGED <<logger, built, now, call, out>>

\* f is called; its results become fields
TraceResult(p, in) ==
    /\ pc[p] = "t_result"
    /\ \E sql \in in.sqls, rows \in in.rows :
         LET e1 == IF sql # "" THEN Str(loc[p].event, logger.opt.fieldName, sql)
                   ELSE loc[p].event
             e2 == IF rows > -1 THEN Int64(e1, "rows_affected", rows) ELSE e1
         IN
           /\ loc' = [loc EXCEPT ![p].event = e2]
           /\ hist' = [hist EXCEPT ![p].fCalls = @ + 1, ![p].fSql = sql, ![p].fRows = rows]
    /\ pc' = [pc EXCEPT ![p] = "t_send"]
    /\ UNCHANGED <<logger, built, now, call, out>>

TraceSend(p) ==
    /\ pc[p] = "t_send"
    /\ Send(p, loc[p].event)
    /\ pc' = [pc EXCEPT ![p] = "done"]
    /\ UNCHANGED <<logger, built, now, call, loc, hist>>

ParamsFilterCall(p, in) ==
    /\ pc[p] = "idle"
    /\ \E sql \in in.sqls, params \in in.params :
          call' = [call EXCEPT ![p] =
                     [NoCall EXCEPT !.op = "ParamsFilter", !.sql = sql, !.params = params,
                                    !.ret = ParamsFilter(logger, sql, params)]]
    /\ pc' = [pc EXCEPT ![p] = "done"]
    /\ UNCHANGED <<logger, built, now, loc, out, hist>>

\* the host keeps the Logger that LogMode returns
LogModeCall(p, in) ==
    /\ pc[p] = "idle"
    /\ \E level \in in.levels :
         /\ logger' = LogMode(logger, level)
         /\ call' = [call EXCEPT ![p] = [NoCall EXCEPT !.op = "LogMode", !.level = level]]
    /\ pc' = [pc EXCEPT ![p] = "done"]
    /\ UNCHANGED <<built, now, loc, out, hist>>

\* the call has returned; the goroutine is free for its next call, with a
\* context of its own
Return(p) ==
    /\ pc[p] = "done"
    /\ pc' = [pc EXCEPT ![p] = "idle"]
    /\ call' = [call EXCEPT ![p] = NoCall]
    /\ loc' = [loc EXCEPT ![p] = NoLoc]
    /\ out' = [out EXCEPT ![p] = <<>>]
    /\ hist' = [hist EXCEPT ![p] = NoHist]
    /\ UNCHANGED <<logger, built, now>>

\* the clock advances
Tick ==
    /\ now < MaxNow
    /\ now' = now + 1
    /\ UNCHANGED <<logger, built, pc, call, loc, out, hist>>

Step(p, in) ==
    \/ Error(p, in)
    \/ Warn(p, in)
    \/ Info(p, in)
    \/ TraceCall(p, in)
    \/ TraceSlow(p)
    \/ TraceEvent(p)
    \/ TraceStamp(p)
    \/ TraceResult(p, in)
    \/ TraceSend(p)
    \/ ParamsFilterCall(p, in)
    \/ LogModeCall(p, in)
    \/ Return(p)

\* one goroutine making its calls one after another
Next == Step(Main, Inputs) \/ Tick

Spec == Init /\ [][Next]_vars

\* several goroutines calling into the same logger
InitConc ==
    \E a \in LogAllOpts, i \in IgnoreOpts, sl \in SlowOpts : InitWith(a \o i \o sl)

NextConc == (\E p \in Procs : Step(p, ConcInputs)) \/ Tick

SpecConc == InitConc /\ [][NextConc]_vars


----------------------------------------------------------------------------
(* What the properties speak of *)

\* goroutine p's call of method op has returned
Done(p, op) == pc[p] = "done" /\ call[p].op = op

\* event e has a field key with value v
HasField(e, key, v) ==
    \E i \in 1..Len(e.fields) : e.fields[i][1] = key /\ e.fields[i][2] = v
HasKey(e, key) == \E i \in 1..Len(e.fields) : e.fields[i][1] = key

\* the SQL text event e carries under the field name; none is the empty text
RecordedSql(e, name) ==
    IF HasKey(e, name)
    THEN (CHOOSE v \in {e.fields[i][2] : i \in {j \in 1..Len(e.fields) : e.fields[j][1] = name}} : TRUE)
    ELSE ""

\* err is the record-not-found sentinel, or wraps it at some depth
NotFoundInChain(err) ==
    \E i \in 1..Len(err) : SubSeq(err, i, Len(err)) = <<"ErrRecordNotFound">>

\* the call was slow at the slow-query test
WasSlow(p) ==
    logger.opt.slowThreshold > 0 /\ hist[p].since1 > logger.opt.slowThreshold

\* exactly one event went out, at this level
OneRecordAt(p, level) == Len(out[p]) = 1 /\ out[p][1].level = level

----------------------------------------------------------------------------
(* C1 *)

\* C1 as stated: every Trace call with a non-nil err other than the
\* record-not-found sentinel emits exactly one record, at Error, carrying err,
\* whatever logAll, slowThreshold, defaultLevel and the elapsed time are.
C1_AsStated ==
    \A p \in Procs :
        (Done(p, "Trace") /\ call[p].err # Nil /\ call[p].err # <<"ErrRecordNotFound">>)
            => /\ OneRecordAt(p, "error")
               /\ HasField(out[p][1], "error", call[p].err)

\* C1, amended: every Trace call with a non-nil err that is not the
\* record-not-found sentinel and, when ignoreNotFoundErr is set, does not wrap
\* it either, emits exactly one record, at Error (also when the call is slow),
\* carrying err.
C1_ErrorAlwaysError ==
    \A p \in Procs :
        (/\ Done(p, "Trace")
         /\ call[p].err # Nil
         /\ call[p].err # <<"ErrRecordNotFound">>
         /\ ~(logger.opt.ignoreNotFoundErr /\ NotFoundInChain(call[p].err)))
            => /\ OneRecordAt(p, "error")
               /\ HasField(out[p][1], "error", call[p].err)

\* a slow call with an ordinary error has returned, with its record at Error
C1_Witness ==
    \E p \in Procs :
        /\ Done(p, "Trace")
        /\ call[p].err = <<"some error">>
        /\ WasSlow(p)
        /\ ~logger.opt.logAll
        /\ OneRecordAt(p, "error")

----------------------------------------------------------------------------
(* C2 *)

\* C2: every Trace call with nil err that is slow (elapsed > slowThreshold > 0)
\* emits one record at Warn, which carries the SQL text the result provider
\* returned and the elapsed time in whole milliseconds, whatever logAll,
\* defaultLevel and the provider's results are.
C2_SlowIsWarn ==
    \A p \in Procs :
        (Done(p, "Trace") /\ call[p].err = Nil /\ WasSlow(p))
            => /\ OneRecordAt(p, "warn")
               /\ RecordedSql(out[p][1], logger.opt.fieldName) = hist[p].fSql
               /\ hist[p].since2 >= hist[p].since1
               /\ HasField(out[p][1], "elapsed_ms", hist[p].since2 \div TicksPerMs)

\* a slow call without error has returned, logAll off and the default level
\* not Warn, the provider having returned a text
C2_Witness ==
    \E p \in Procs :
        /\ Done(p, "Trace")
        /\ call[p].err = Nil
        /\ WasSlow(p)
        /\ ~logger.opt.logAll
        /\ logger.opt.defaultLogLevel = "debug"
        /\ hist[p].fSql = "SELECT 1"
        /\ hist[p].since2 \div TicksPerMs >= 1
        /\ OneRecordAt(p, "warn")

----------------------------------------------------------------------------
(* C3 *)

\* C3: a Trace call with nil err that is not slow (slowThreshold = 0, or
\* elapsed <= slowThreshold) emits a record if and only if logAll is set, and
\* that record is at the configured default level.
C3_QuietUnlessLogAll ==
    \A p \in Procs :
        (/\ Done(p, "Trace")
         /\ call[p].err = Nil
         /\ (logger.opt.slowThreshold = 0 \/ hist[p].since1 <= logger.opt.slowThreshold))
            => IF logger.opt.logAll
               THEN OneRecordAt(p, logger.opt.defaultLogLevel)
               ELSE out[p] = <<>>

\* a call that took exactly the threshold has returned without a record
C3_Witness ==
    \E p \in Procs :
        /\ Done(p, "Trace")
        /\ call[p].err = Nil
        /\ logger.opt.slowThreshold > 0
        /\ hist[p].since1 = logger.opt.slowThreshold
        /\ ~logger.opt.logAll
        /\ out[p] = <<>>

----------------------------------------------------------------------------
(* C4 *)

\* C4: a Trace call whose err is the record-not-found sentinel emits nothing
\* when ignoreNotFoundErr is set, slow or not, logAll or not; and one record
\* at Error when it is not set.
C4_NotFoundIgnored ==
    \A p \in Procs :
        (Done(p, "Trace") /\ call[p].err = <<"ErrRecordNotFound">>)
            => IF logger.opt.ignoreNotFoundErr
               THEN out[p] = <<>>
               ELSE OneRecordAt(p, "error")

\* a slow not-found call under logAll and ignoreNotFoundErr has returned
\* without a record
C4_Witness ==
    \E p \in Procs :
        /\ Done(p, "Trace")
        /\ call[p].err = <<"ErrRecordNotFound">>
        /\ logger.opt.ignoreNotFoundErr
        /\ logger.opt.logAll
        /\ WasSlow(p)
        /\ out[p] = <<>>

----------------------------------------------------------------------------
(* C5 *)

\* C5: ParamsFilter returns the SQL text as given; no parameters when
\* logParams is off, the given parameters when it is on; and filtering its
\* own result gives that result again.
C5_ParamsFilter ==
    \A p \in Procs :
        Done(p, "ParamsFilter")
            => /\ call[p].ret[1] = call[p].sql
               /\ call[p].ret[2] = IF logger.opt.logParams THEN call[p].params ELSE <<>>
               /\ ParamsFilter(logger, call[p].ret[1], call[p].ret[2]) = call[p].ret

\* parameters were given and redacted
C5_Witness ==
    \E p \in Procs :
        /\ Done(p, "ParamsFilter")
        /\ ~logger.opt.logParams
        /\ Len(call[p].params) = MaxParams
        /\ call[p].sql # ""
        /\ call[p].ret[2] = <<>>

----------------------------------------------------------------------------
(* C6 *)

\* the level each leveled method logs at
LevelOf(op) ==
    CASE op = "Error" -> "error" [] op = "Warn" -> "warn" [] op = "Info" -> "info"

\* the format has as many verbs as there are arguments
WellFormed(format, a) ==
    Cardinality({i \in 1..Len(format) : format[i] = "%s"}) = Len(a)

\* the message of a well-formed call
Substituted(format, a) ==
    CASE format = <<"plain">> -> "plain"
      [] format = <<"info ", "%s">> -> "info " \o a[1]

\* C6: each call of Error, Warn or Info starts and sends exactly one event,
\* through the logger of its context, at the method's level, with the format
\* and its arguments substituted as message, whatever the trace options are;
\* caller-skip is set on it if and only if skipFrames > 0.
C6_Leveled ==
    \A p \in Procs :
        (pc[p] = "done" /\ call[p].op \in {"Error", "Warn", "Info"})
            => /\ OneRecordAt(p, LevelOf(call[p].op))
               /\ hist[p].started = 1
               /\ out[p][1].sink = (IF call[p].ctx = "background"
                                    THEN "DefaultContextLogger" ELSE "ctxLogger")
               /\ out[p][1].skip = (IF logger.opt.skipFrames > 0
                                    THEN logger.opt.skipFrames ELSE 0)
               /\ WellFormed(call[p].format, call[p].args)
                    => out[p][1].msg = Substituted(call[p].format, call[p].args)

\* Warn("info %s", "test") has returned under skipFrames = 1 and logAll
C6_Witness ==
    \E p \in Procs :
        /\ Done(p, "Warn")
        /\ call[p].format = <<"info ", "%s">>
        /\ call[p].args = <<"test">>
        /\ logger.opt.skipFrames = 1
        /\ logger.opt.logAll
        /\ out[p][1].msg = "info test"
        /\ out[p][1].skip = 1

----------------------------------------------------------------------------
(* C7 *)

----------------------------------------------------------------------------
(* C8 *)

\* C8 as stated: with ignoreNotFoundErr set, only the sentinel itself is
\* suppressed; every other non-nil err, one wrapping the sentinel included,
\* gets one record at Error carrying err.
C8_AsStated ==
    \A p \in Procs :
        (/\ Done(p, "Trace")
         /\ logger.opt.ignoreNotFoundErr
         /\ call[p].err # Nil
         /\ call[p].err # <<"ErrRecordNotFound">>)
            => /\ OneRecordAt(p, "error")
               /\ HasField(out[p][1], "error", call[p].err)

\* C8, amended: with ignoreNotFoundErr set, Trace suppresses the record when
\* err is the sentinel or wraps it (errors.Is); every other non-nil err gets
\* one record at Error carrying err.
C8_SuppressedIfIsNotFound ==
    \A p \in Procs :
        (Done(p, "Trace") /\ logger.opt.ignoreNotFoundErr /\ call[p].err # Nil)
            => IF NotFoundInChain(call[p].err)
               THEN out[p] = <<>>
               ELSE /\ OneRecordAt(p, "error")
                    /\ HasField(out[p][1], "error", call[p].err)

\* a call with an error wrapping the sentinel has returned without a record
C8_Witness ==
    \E p \in Procs :
        /\ Done(p, "Trace")
        /\ logger.opt.ignoreNotFoundErr
        /\ call[p].err = <<"wrap", "ErrRecordNotFound">>
        /\ out[p] = <<>>

----------------------------------------------------------------------------
(* C9 *)

\* C9: Trace uses one reading of the elapsed time for the slow-query test and
\* for elapsed_ms, so that the record of a call with nil err and
\* slowThreshold > 0 has an elapsed_ms above slowThreshold only if it is at
\* Warn, also when the clock advances while Trace runs.
C9_SlowRecordIsWarn ==
    \A p \in Procs :
        (/\ Done(p, "Trace")
         /\ call[p].err = Nil
         /\ logger.opt.slowThreshold > 0
         /\ Len(out[p]) = 1)
            => \A i \in 1..Len(out[p][1].fields) :
                    (/\ out[p][1].fields[i][1] = "elapsed_ms"
                     /\ out[p][1].fields[i][2] * TicksPerMs > logger.opt.slowThreshold)
                        => out[p][1].level = "warn"

----------------------------------------------------------------------------
(* C10 *)

\* C10: in a Trace call the result provider is called at most once, and only
\* once the call is to emit and before the record is sent; a call that has
\* returned called it exactly when it emitted a record, so not when an ignored
\* not-found error or a quiet query (logAll off, nil err, not slow) ended it.
C10_ProviderLazy ==
    \A p \in Procs :
        call[p].op = "Trace"
            => /\ hist[p].fCalls <= 1
               /\ hist[p].fCalls = 1 => (pc[p] \in {"t_send", "done"} /\ loc[p].shouldLog)
               /\ pc[p] \in {"t_slow", "t_event", "t_stamp", "t_result"}
                    => (hist[p].fCalls = 0 /\ out[p] = <<>>)
               /\ pc[p] = "t_send" => out[p] = <<>>
               /\ pc[p] = "done" => hist[p].fCalls = Len(out[p])
               /\ (/\ pc[p] = "done"
                   /\ \/ logger.opt.ignoreNotFoundErr /\ call[p].err = <<"ErrRecordNotFound">>
                      \/ /\ ~logger.opt.logAll
                         /\ call[p].err = Nil
                         /\ ~WasSlow(p))
                    => hist[p].fCalls = 0

\* the provider has been called and the record is not yet sent
C10_Witness ==
    \E p \in Procs :
        /\ call[p].op = "Trace"
        /\ pc[p] = "t_send"
        /\ hist[p].fCalls = 1
        /\ out[p] = <<>>

====
